---- MODULE Spec2Model ----
(***************************************************************************)
(* gnes/indexer/leveldb.py: LVDBIndexer (synchronous batched put/get over  *)
(* a LevelDB handle) and AsyncLVDBIndexer (write-behind list _jobs, a      *)
(* daemon thread running _db_write, the Events _is_busy and _exit_signal). *)
(*                                                                         *)
(* Threads of the model: the caller threads (add, query), one thread that  *)
(* calls close, and the worker thread started by __init__.  Every thread   *)
(* has a program counter; one step is one atomic effect on shared state    *)
(* (CPython's list.append, list.pop, list.clear, Event.set, Event.clear,   *)
(* and the committing exit of a write batch are each atomic).              *)
(***************************************************************************)
EXTENDS Integers, Sequences, FiniteSets, TLC

\* ---------------------------------------------------------------- bounds
NumCallers == 2
MaxAdds == 3

Callers == 1..NumCallers

\* ---------------------------------------------------------------- values
Keys == {1, 2, 3}
Docs == {"a", "b"}

\* self._NOT_FOUND = {}
NOT_FOUND == "{}"

\* what plyvel's get returns for an absent key (false in "if v")
None == <<>>

\* The worker's locals keys, docs before it has popped a batch.
NoBatch == [keys |-> <<>>, docs |-> <<>>, uid |-> 0]

\* The batches callers pass to add: (keys, docs).
Batches ==
  { [keys |-> <<1>>, docs |-> <<"a">>],
    [keys |-> <<1>>, docs |-> <<"b">>],
    [keys |-> <<2>>, docs |-> <<"b">>],
    [keys |-> <<1, 2>>, docs |-> <<"a", "b">>] }

\* The key list callers pass to query.
QueryKeys == { <<2, 1>> }

\* The batches passed to the synchronous LVDBIndexer.add: those above, one
\* with fewer docs than keys, and one whose second doc cannot be pickled.
SyncBatches ==
  Batches \cup { [keys |-> <<1, 2>>, docs |-> <<"a">>],
                 [keys |-> <<1, 2>>, docs |-> <<"a", "<lambda>">>] }

\* The key lists passed to the synchronous LVDBIndexer.query.
SyncQueryKeys == QueryKeys \cup { <<3, 2, 1>> }

\* A document pickle.dumps cannot encode (docs: List[Any] admits a lambda, an
\* open file, ...): dumps raises on it.
Unpicklable == "<lambda>"
Picklable(x) == x # Unpicklable

\* pickle.dumps / pickle.loads: an injective encoding into tagged bytes.
dumps(x) == <<"pkl", x>>
loads(b) == b[2]

EncKeys == { dumps(k) : k \in Keys }

Min(a, b) == IF a < b THEN a ELSE b

\* zip(keys, docs): pairs up to the shorter of the two.
Zip(keys, docs) == [i \in 1..Min(Len(keys), Len(docs)) |-> <<keys[i], docs[i]>>]

\* bool(obj) of a threading.Event: the class defines neither __bool__ nor
\* __len__, so the object is true whatever its flag is.
Truthy(flag) == TRUE

\* The attributes __init__ sets on an AsyncLVDBIndexer.
AllAttrs == {"_db", "_is_busy", "_exit_signal", "_jobs", "_thread"}

VARIABLES
  jobs,         \* self._jobs: list of (keys, docs), each tagged with a ghost uid
  db,           \* self._db contents: encoded key -> encoded doc, or None
  db_open,      \* the plyvel handle is open
  is_busy,      \* flag of the Event self._is_busy
  exit_signal,  \* flag of the Event self._exit_signal
  pc_w,         \* worker thread (_db_write): its position
  cur,          \* worker: the (keys, docs) popped, or NoBatch
  pc_q,         \* caller thread: position inside query
  q_keys,       \* caller thread: keys of the running query
  q_res,        \* caller thread: res of the running query
  pc_c,         \* closing thread: position inside close
  attrs,        \* the instance attributes that are set (names in __dict__)
  submitted,    \* ghost: the batches passed to add, in the order add returned
  written,      \* ghost: uids of the batches committed to storage, in order
  dropped,      \* ghost: uids of the batches removed by close's clear
  raised        \* ghost: uids of the batches whose LVDBIndexer.add raised

vars == <<jobs, db, db_open, is_busy, exit_signal, pc_w, cur, pc_q, q_keys, q_res,
          pc_c, attrs, submitted, written, dropped, raised>>

shared == <<jobs, db, db_open, is_busy, exit_signal, attrs>>
worker == <<pc_w, cur>>
callers == <<pc_q, q_keys, q_res>>
ghost == <<submitted, written, dropped, raised>>

\* LVDBIndexer.__init__ and AsyncLVDBIndexer.__init__ at a fresh data_path:
\* the store is empty and open, both Events are clear, _jobs is empty, and
\* the worker thread is started (about to evaluate its loop condition).
Init ==
  /\ jobs = <<>>
  /\ db = [k \in EncKeys |-> None]
  /\ db_open = TRUE
  /\ is_busy = FALSE
  /\ exit_signal = FALSE
  /\ pc_w = "test"
  /\ cur = NoBatch
  /\ pc_q = [t \in Callers |-> "idle"]
  /\ q_keys = [t \in Callers |-> <<>>]
  /\ q_res = [t \in Callers |-> <<>>]
  /\ pc_c = "running"
  /\ attrs = AllAttrs
  /\ submitted = <<>>
  /\ written = <<>>
  /\ dropped = {}
  /\ raised = {}

\* ------------------------------------------------------ LVDBIndexer (sync)

\* Mutant of ApplyPuts: only the first put of the batch reaches the store.
ApplyFirstPut(d, puts) ==
  IF puts = <<>> THEN d ELSE [d EXCEPT ![Head(puts)[1]] = Head(puts)[2]]

RECURSIVE ApplyPuts(_, _)
\* The commit of a plyvel write batch: the puts in order, a later put of the
\* same encoded key replacing an earlier one.
ApplyPuts(d, puts) ==
  IF puts = <<>> THEN d
  ELSE ApplyPuts([d EXCEPT ![Head(puts)[1]] = Head(puts)[2]], Tail(puts))

\* LVDBIndexer.add raises inside its loop: pickle.dumps(d) fails for a pair.
AddRaises(keys, docs) ==
  \E i \in DOMAIN Zip(keys, docs) : ~Picklable(Zip(keys, docs)[i][2])

\* The pairs of zip(keys, docs) the loop of LVDBIndexer.add gets through:
\* all of them, or those before the first pair whose dumps raises.
PairsPut(keys, docs) ==
  LET z == Zip(keys, docs)
      bad == { i \in DOMAIN z : ~Picklable(z[i][2]) }
      n == IF bad = {} THEN Len(z)
           ELSE (CHOOSE i \in bad : \A j \in bad : i <= j) - 1
  IN SubSeq(z, 1, n)

\* LVDBIndexer.add: one write batch holding a put of (dumps(k), dumps(d)) for
\* every pair of zip(keys, docs), committed when the with-block exits.  The
\* batch is opened with write_batch() (transaction=False), whose exit commits
\* the puts made so far also when the block is left by an exception.
LVDB_add(d, keys, docs) ==
  ApplyPuts(d, [i \in DOMAIN PairsPut(keys, docs) |->
                  <<dumps(PairsPut(keys, docs)[i][1]), dumps(PairsPut(keys, docs)[i][2])>>])

\* One iteration of LVDBIndexer.query's loop: get, then decode or _NOT_FOUND.
LVDB_lookup(d, k) ==
  IF d[dumps(k)] # None THEN loads(d[dumps(k)]) ELSE NOT_FOUND

\* A whole LVDBIndexer.query against an unchanging store.
LVDB_query(d, keys) == [i \in DOMAIN keys |-> LVDB_lookup(d, keys[i])]

\* ------------------------------------------------- AsyncLVDBIndexer: callers

\* A caller thread that is not inside a call.
Free(t) == pc_q[t] \in {"idle", "returned", "raised"}

\* Mutant of add: the inherited synchronous add, writing from the caller's thread.
add_sync(t, b) ==
  /\ Free(t)
  /\ Len(submitted) < MaxAdds
  /\ db' = LVDB_add(db, b.keys, b.docs)
  /\ submitted' = Append(submitted, b)
  /\ UNCHANGED <<jobs, db_open, is_busy, exit_signal, worker, callers, pc_c, written, dropped, attrs, raised>>

\* AsyncLVDBIndexer.add: self._jobs.append((keys, docs)), nothing else.
add(t, b) ==
  /\ Free(t)
  /\ Len(submitted) < MaxAdds
  /\ jobs' = Append(jobs, [keys |-> b.keys, docs |-> b.docs, uid |-> Len(submitted) + 1])
  /\ submitted' = Append(submitted, b)
  /\ UNCHANGED <<db, db_open, is_busy, exit_signal, worker, callers, pc_c, written, dropped, attrs, raised>>

\* A caller enters AsyncLVDBIndexer.query(keys).
QueryCall(t, ks) ==
  /\ Free(t)
  /\ pc_q' = [pc_q EXCEPT ![t] = "wait"]
  /\ q_keys' = [q_keys EXCEPT ![t] = ks]
  /\ q_res' = [q_res EXCEPT ![t] = <<>>]
  /\ UNCHANGED <<shared, worker, pc_c, ghost>>

\* self._is_busy.wait(): Event.wait returns at once when the flag is set and
\* otherwise blocks on the Event's condition until a set() notifies it.
QueryWait(t) ==
  /\ pc_q' = [pc_q EXCEPT ![t] = IF is_busy THEN "lookup" ELSE "blocked"]
  /\ UNCHANGED <<q_keys, q_res, shared, worker, pc_c, ghost>>

\* super().query(keys, top_k): one loop iteration per step, each a get on the
\* live store; a get on a closed handle raises.
QueryLookup(t) ==
  /\ IF ~db_open
       THEN /\ pc_q' = [pc_q EXCEPT ![t] = "raised"]
            /\ UNCHANGED q_res
       ELSE /\ q_res' = [q_res EXCEPT ![t] =
                           Append(@, LVDB_lookup(db, q_keys[t][Len(@) + 1]))]
            /\ pc_q' = [pc_q EXCEPT ![t] =
                          IF Len(q_res[t]) + 1 = Len(q_keys[t]) THEN "returned" ELSE "lookup"]
  /\ UNCHANGED <<q_keys, shared, worker, pc_c, ghost>>

\* The next step of caller t inside AsyncLVDBIndexer.query.
query(t) ==
  CASE pc_q[t] = "wait" -> QueryWait(t)
    [] pc_q[t] = "lookup" -> QueryLookup(t)
    [] OTHER -> FALSE

\* -------------------------------------------------- AsyncLVDBIndexer: worker

\* Mutant of WorkerTest: a loop that never leaves (while True).
WorkerTestForever ==
  /\ pc_w' = "check"
  /\ UNCHANGED <<cur, shared, callers, pc_c, ghost>>

\* while not self._exit_signal: the truth value of the Event object, not its
\* flag.  With Truthy constantly TRUE the loop is left at the first test and
\* the steps below (check, pop, _add) are never reached.  Reading an
\* attribute that is not set raises AttributeError, which ends the thread.
WorkerTest ==
  /\ pc_w' = IF "_exit_signal" \notin attrs THEN "dead"
             ELSE IF ~Truthy(exit_signal) THEN "check" ELSE "done"
  /\ UNCHANGED <<cur, shared, callers, pc_c, ghost>>

\* if self._jobs:
WorkerCheck ==
  /\ pc_w' = IF jobs # <<>> THEN "pop" ELSE "test"
  /\ UNCHANGED <<cur, shared, callers, pc_c, ghost>>

\* keys, docs = self._jobs.pop(): the last element; IndexError on an empty
\* list ends the thread.
WorkerPop ==
  /\ IF jobs = <<>>
       THEN /\ pc_w' = "dead"
            /\ UNCHANGED <<jobs, cur, attrs>>
       ELSE /\ cur' = jobs[Len(jobs)]
            /\ jobs' = SubSeq(jobs, 1, Len(jobs) - 1)
            /\ pc_w' = "set_busy"
  /\ UNCHANGED <<db, db_open, is_busy, exit_signal, callers, pc_c, ghost, attrs>>

\* _add: self._is_busy.set(), which also releases every thread blocked in
\* self._is_busy.wait().
AddSetBusy ==
  /\ IF "_is_busy" \notin attrs
       THEN /\ pc_w' = "dead"
            /\ UNCHANGED <<is_busy, pc_q>>
       ELSE /\ is_busy' = TRUE
            /\ pc_q' = [t \in Callers |-> IF pc_q[t] = "blocked" THEN "lookup" ELSE pc_q[t]]
            /\ pc_w' = "write"
  /\ UNCHANGED <<jobs, db, db_open, exit_signal, cur, q_keys, q_res, pc_c, ghost, attrs>>

\* _add: super().add(keys, docs); on a closed handle write_batch raises, and
\* so does a dumps inside the loop; the exception leaves _add before the
\* clear and ends the thread.
AddWrite ==
  /\ IF ~db_open
       THEN /\ pc_w' = "dead"
            /\ raised' = raised \cup {cur.uid}
            /\ UNCHANGED <<db, written>>
       ELSE /\ db' = LVDB_add(db, cur.keys, cur.docs)
            /\ IF AddRaises(cur.keys, cur.docs)
                 THEN /\ pc_w' = "dead"
                      /\ raised' = raised \cup {cur.uid}
                      /\ UNCHANGED written
                 ELSE /\ pc_w' = "clear_busy"
                      /\ written' = Append(written, cur.uid)
                      /\ UNCHANGED raised
  /\ UNCHANGED <<jobs, db_open, is_busy, exit_signal, cur, callers, pc_c, submitted, dropped, attrs>>

\* _add: self._is_busy.clear(); back to the loop condition.
AddClearBusy ==
  /\ is_busy' = FALSE
  /\ cur' = NoBatch
  /\ pc_w' = "test"
  /\ UNCHANGED <<jobs, db, db_open, exit_signal, callers, pc_c, ghost, attrs>>

\* The next step of the worker thread in _db_write.
db_write ==
  CASE pc_w = "test" -> WorkerTest
    [] pc_w = "check" -> WorkerCheck
    [] pc_w = "pop" -> WorkerPop
    [] pc_w = "set_busy" -> AddSetBusy
    [] pc_w = "write" -> AddWrite
    [] pc_w = "clear_busy" -> AddClearBusy
    [] OTHER -> FALSE

\* The worker thread has ended (returned, or died of an exception).
WorkerEnded == pc_w \in {"done", "dead"}

\* The worker is inside the write of a batch (between set and clear in _add).
InWrite == pc_w \in {"write", "clear_busy"}

\* --------------------------------------------------- AsyncLVDBIndexer: close

\* A thread calls close().
CloseCall ==
  /\ pc_c = "running"
  /\ pc_c' = "clear"
  /\ UNCHANGED <<shared, worker, callers, ghost>>

\* Mutant of CloseClear: close leaves the pending batches in the list.
CloseKeepJobs ==
  /\ pc_c = "clear"
  /\ pc_c' = "set"
  /\ UNCHANGED <<shared, worker, callers, ghost>>

\* self._jobs.clear()
CloseClear ==
  /\ pc_c = "clear"
  /\ jobs' = <<>>
  /\ dropped' = dropped \cup { jobs[i].uid : i \in DOMAIN jobs }
  /\ pc_c' = "set"
  /\ UNCHANGED <<db, db_open, is_busy, exit_signal, worker, callers, submitted, written, attrs, raised>>

\* self._exit_signal.set()
CloseSetSignal ==
  /\ pc_c = "set"
  /\ exit_signal' = TRUE
  /\ pc_c' = "join"
  /\ UNCHANGED <<jobs, db, db_open, is_busy, worker, callers, ghost, attrs>>

\* Mutant of CloseJoin: close does not wait for the worker thread.
CloseJoinNoWait ==
  /\ pc_c = "join"
  /\ pc_c' = "super"
  /\ UNCHANGED <<shared, worker, callers, ghost>>

\* self._thread.join(): returns once the worker thread has ended.
CloseJoin ==
  /\ pc_c = "join"
  /\ WorkerEnded
  /\ pc_c' = "super"
  /\ UNCHANGED <<shared, worker, callers, ghost>>

\* super().close(): LVDBIndexer.close closes the handle.
LVDB_close ==
  /\ pc_c = "super"
  /\ db_open' = FALSE
  /\ pc_c' = "closed"
  /\ UNCHANGED <<jobs, db, is_busy, exit_signal, worker, callers, ghost, attrs>>

\* The steps of close() after the call.
close == CloseClear \/ CloseSetSignal \/ CloseJoin \/ LVDB_close

\* ------------------------------------------- LVDBIndexer used on its own

\* The thread that owns a synchronous LVDBIndexer and calls it.
Owner == CHOOSE t \in Callers : \A u \in Callers : t <= u

\* LVDBIndexer.__init__ at a fresh data_path: an open, empty store; there is
\* no worker thread, no Event and no list of jobs.
SyncInit ==
  /\ jobs = <<>>
  /\ db = [k \in EncKeys |-> None]
  /\ db_open = TRUE
  /\ is_busy = FALSE
  /\ exit_signal = FALSE
  /\ pc_w = "none"
  /\ cur = NoBatch
  /\ pc_q = [t \in Callers |-> "idle"]
  /\ q_keys = [t \in Callers |-> <<>>]
  /\ q_res = [t \in Callers |-> <<>>]
  /\ pc_c = "running"
  /\ attrs = {"_db"}
  /\ submitted = <<>>
  /\ written = <<>>
  /\ dropped = {}
  /\ raised = {}

\* A call LVDBIndexer.add(keys, docs), whole: it returns None, or it raises
\* (write_batch on a closed handle, or a dumps inside the loop).
SyncAdd(b) ==
  /\ Len(submitted) < MaxAdds
  /\ submitted' = Append(submitted, b)
  /\ db' = IF db_open THEN LVDB_add(db, b.keys, b.docs) ELSE db
  /\ IF ~db_open \/ AddRaises(b.keys, b.docs)
       THEN /\ raised' = raised \cup {Len(submitted) + 1}
            /\ pc_q' = [pc_q EXCEPT ![Owner] = "raised"]
            /\ UNCHANGED written
       ELSE /\ written' = Append(written, Len(submitted) + 1)
            /\ pc_q' = [pc_q EXCEPT ![Owner] = "idle"]
            /\ UNCHANGED raised
  /\ q_keys' = [q_keys EXCEPT ![Owner] = <<>>]
  /\ q_res' = [q_res EXCEPT ![Owner] = <<>>]
  /\ UNCHANGED <<jobs, db_open, is_busy, exit_signal, attrs, worker, pc_c, dropped>>

\* A call LVDBIndexer.query(keys), whole: it returns res, or the first get
\* raises on a closed handle.
SyncQuery(ks) ==
  /\ q_keys' = [q_keys EXCEPT ![Owner] = ks]
  /\ IF db_open
       THEN /\ q_res' = [q_res EXCEPT ![Owner] = LVDB_query(db, ks)]
            /\ pc_q' = [pc_q EXCEPT ![Owner] = "returned"]
       ELSE /\ q_res' = [q_res EXCEPT ![Owner] = <<>>]
            /\ pc_q' = [pc_q EXCEPT ![Owner] = "raised"]
  /\ UNCHANGED <<shared, worker, pc_c, ghost>>

\* The owner calls LVDBIndexer.close().
SyncCloseCall ==
  /\ pc_c = "running"
  /\ pc_c' = "super"
  /\ UNCHANGED <<shared, worker, callers, ghost>>

SyncNext ==
  \/ \E b \in SyncBatches : SyncAdd(b)
  \/ \E ks \in SyncQueryKeys : SyncQuery(ks)
  \/ SyncCloseCall
  \/ LVDB_close

\* A synchronous LVDBIndexer and its single caller.
SyncSpec == SyncInit /\ [][SyncNext]_vars

\* ------------------------------------ AsyncLVDBIndexer: pickling and restore

\* The tagged list of pending batches for a sequence s of submitted batches.
Tagged(s) == [i \in DOMAIN s |-> [keys |-> s[i].keys, docs |-> s[i].docs, uid |-> i]]

\* The lists _jobs can hold when __getstate__ is called.
PickledJobs == UNION { [1..n -> Batches] : n \in 0..MaxAdds }

\* __setstate__(d) is entered on the new, attribute-less object that
\* unpickling creates.  d is what __getstate__ returned: the instance
\* attributes without _db, _thread, _is_busy and _exit_signal, so it still
\* holds _jobs (here: kept in jobs until the restore puts it on the object).
RestoreInit ==
  /\ \E s \in PickledJobs : jobs = Tagged(s) /\ submitted = s
  /\ db = [k \in EncKeys |-> None]
  /\ db_open = FALSE
  /\ is_busy = FALSE
  /\ exit_signal = FALSE
  /\ pc_w = "none"
  /\ cur = NoBatch
  /\ pc_q = [t \in Callers |-> "idle"]
  /\ q_keys = [t \in Callers |-> <<>>]
  /\ q_res = [t \in Callers |-> <<>>]
  /\ pc_c = "setstate_super"
  /\ attrs = {}
  /\ written = <<>>
  /\ dropped = {}
  /\ raised = {}

\* super().__setstate__(d): the attributes of d are put on the object and
\* LVDBIndexer.__setstate__ reopens the store at data_path.
SetStateSuper ==
  /\ pc_c = "setstate_super"
  /\ attrs' = {"_jobs", "_db"}
  /\ db_open' = TRUE
  /\ pc_c' = "setstate_thread"
  /\ UNCHANGED <<jobs, db, is_busy, exit_signal, worker, callers, ghost>>

\* self._thread = Thread(target=self._db_write, ...); setDaemon; start()
SetStateStart ==
  /\ pc_c = "setstate_thread"
  /\ attrs' = attrs \cup {"_thread"}
  /\ pc_w' = "test"
  /\ pc_c' = "setstate_busy"
  /\ UNCHANGED <<jobs, db, db_open, is_busy, exit_signal, cur, callers, ghost>>

\* self._is_busy = Event()
SetStateBusy ==
  /\ pc_c = "setstate_busy"
  /\ attrs' = attrs \cup {"_is_busy"}
  /\ is_busy' = FALSE
  /\ pc_c' = "setstate_jobs"
  /\ UNCHANGED <<jobs, db, db_open, exit_signal, worker, callers, ghost>>

\* self._jobs = []: the restored list is replaced; __setstate__ returns.
SetStateJobs ==
  /\ pc_c = "setstate_jobs"
  /\ attrs' = attrs \cup {"_jobs"}
  /\ jobs' = <<>>
  /\ dropped' = dropped \cup { jobs[i].uid : i \in DOMAIN jobs }
  /\ pc_c' = "running"
  /\ UNCHANGED <<db, db_open, is_busy, exit_signal, worker, callers, submitted, written, raised>>

RestoreNext ==
  \/ SetStateSuper
  \/ SetStateStart
  \/ SetStateBusy
  \/ SetStateJobs
  \/ db_write

\* An AsyncLVDBIndexer being restored from its pickled state.
RestoreSpec == RestoreInit /\ [][RestoreNext]_vars

\* ------------------------------------------------------------ specifications

Next ==
  \/ \E t \in Callers, b \in Batches : add(t, b)
  \/ \E t \in Callers, ks \in QueryKeys : QueryCall(t, ks)
  \/ \E t \in Callers : query(t)
  \/ db_write
  \/ CloseCall
  \/ close

Spec == Init /\ [][Next]_vars

\* The scheduler runs every thread that can take a step: the worker, the
\* callers inside query, and the thread inside close.  Whether add, query or
\* close is called at all is up to the callers.
FairSpec ==
  /\ Spec
  /\ WF_vars(db_write)
  /\ WF_vars(close)
  /\ \A t \in Callers : WF_vars(query(t))

\* ------------------------------------------------------------------ claims

Range(s) == { s[i] : i \in DOMAIN s }

EmptyDb == [k \in EncKeys |-> None]

\* C1: while close is never called and the threads are scheduled fairly,
\* every batch passed to add is eventually written to storage by the worker.
C1_EventualVisibility ==
  [](pc_c = "running") =>
    \A u \in 1..MaxAdds : (Len(submitted) >= u) ~> (u \in Range(written))

\* C2: a caller is blocked inside query's wait only while the Busy Flag is
\* set (query blocks exactly while a flush is in progress).
C2_BlockedOnlyWhileBusy == \A t \in Callers : pc_q[t] = "blocked" => is_busy

\* C4: storage changes only in a step of the worker's write, taken with the
\* Busy Flag set; a step of add (the list grows) never changes storage.
C4_SingleWriter ==
  [][ /\ (db' # db \/ written' # written) => (pc_w = "write" /\ is_busy)
      /\ (Len(jobs') > Len(jobs)) => (db' = db) ]_vars

\* C4 witness: two calls of add have returned and storage is untouched.
C4_Witness == Len(submitted) = 2 /\ Len(jobs) = 2 /\ db = EmptyDb

\* C5: once close has been called it eventually returns.
C5_CloseTerminates == (pc_c # "running") ~> (pc_c = "closed")

\* C5 witness: close was called with batches pending and has returned.
C5_Witness == pc_c = "closed" /\ dropped # {}

C7_CloseOrder ==
  /\ [][(pc_c = "clear" /\ pc_c' # "clear") => (jobs' = <<>> /\ ~exit_signal')]_vars
  /\ [](exit_signal => pc_c \in {"join", "super", "closed"})
  /\ [](pc_c \in {"super", "closed"} => (exit_signal /\ WorkerEnded))
  /\ [](~db_open => pc_c = "closed")
  /\ [](dropped \cap Range(written) = {})

\* C7 witness: close has returned after discarding pending batches, none of
\* which reached storage.
C7_Witness == pc_c = "closed" /\ Cardinality(dropped) = 2 /\ db = EmptyDb

RECURSIVE FoldAdds(_, _)
\* The store after writing the batches of s one after the other.
FoldAdds(d, s) ==
  IF s = <<>> THEN d ELSE FoldAdds(LVDB_add(d, Head(s).keys, Head(s).docs), Tail(s))

\* The batches of s write pairwise distinct keys.
DistinctKeys(s) ==
  \A i, j \in DOMAIN s : i # j => Range(s[i].keys) \cap Range(s[j].keys) = {}

\* Every submitted batch has been written exactly once and, for batches of
\* distinct keys, storage holds the union of the submitted batches.
AllFlushed ==
  /\ Len(written) = Len(submitted)
  /\ Range(written) = DOMAIN submitted
  /\ DistinctKeys(submitted) => db = FoldAdds(EmptyDb, submitted)

\* C9: while close is never called, the concurrent adds end with every
\* submitted batch flushed: none dropped, none duplicated.
C9_NoBatchLost == [](pc_c = "running") => <>[]AllFlushed

\* A batch with as many docs as keys, all of them picklable.
WellFormed(b) ==
  /\ Len(b.keys) = Len(b.docs)
  /\ \A i \in DOMAIN b.docs : Picklable(b.docs[i])

\* The places <<u, j>> where key k was submitted: batch u, position j.
Holders(k) ==
  UNION { { <<u, j>> : j \in { i \in DOMAIN submitted[u].keys : submitted[u].keys[i] = k } }
          : u \in DOMAIN submitted }

\* The document submitted with key k, or the Not-Found Sentinel.
Expected(k) ==
  IF Holders(k) = {} THEN NOT_FOUND
  ELSE LET h == CHOOSE h \in Holders(k) : TRUE IN submitted[h[1]].docs[h[2]]

\* C11: after well-formed batches of pairwise disjoint keys have been added
\* without error, a query that returns gives one element per key, in the
\* order of its keys: the document submitted with the key, or the Not-Found
\* Sentinel for a key never added.
C11_LookupCorrect ==
  ( /\ pc_q[Owner] = "returned"
    /\ raised = {}
    /\ \A u \in DOMAIN submitted : WellFormed(submitted[u])
    /\ DistinctKeys(submitted) )
  => /\ Len(q_res[Owner]) = Len(q_keys[Owner])
     /\ \A i \in DOMAIN q_keys[Owner] : q_res[Owner][i] = Expected(q_keys[Owner][i])

\* C11 witness: two batches of disjoint keys were added, and a query for a
\* key never added and for their keys has returned.
C11_Witness ==
  /\ pc_q[Owner] = "returned"
  /\ submitted = << [keys |-> <<1>>, docs |-> <<"a">>], [keys |-> <<2>>, docs |-> <<"b">>] >>
  /\ q_keys[Owner] = <<3, 2, 1>>
  /\ q_res[Owner] = <<NOT_FOUND, "b", "a">>

\* The store after every pair of zip(b.keys, b.docs) has been put.
WholeBatch(d, b) ==
  ApplyPuts(d, [i \in DOMAIN Zip(b.keys, b.docs) |->
                  <<dumps(Zip(b.keys, b.docs)[i][1]), dumps(Zip(b.keys, b.docs)[i][2])>>])

\* C15: a call of add leaves storage with every pair of its batch put, or,
\* when the write fails partway, with none of them.
C15_BatchAtomic ==
  [][ Len(submitted') > Len(submitted) =>
        LET b == submitted'[Len(submitted')]
        IN \/ db' = db
           \/ (~AddRaises(b.keys, b.docs) /\ db' = WholeBatch(db, b)) ]_vars

\* C16: a call of add with len(keys) # len(docs) raises and leaves storage
\* unchanged.
C16_MismatchRejected ==
  [][ ( /\ Len(submitted') > Len(submitted)
        /\ Len(submitted'[Len(submitted')].keys) # Len(submitted'[Len(submitted')].docs) )
      => (db' = db /\ Len(submitted') \in raised') ]_vars

\* C12: while close is never called, a query called while the worker is not
\* inside a write returns, whatever the length of the queue.
C12_QueryWaitsOnlyOnBusy ==
  [](pc_c = "running") =>
    \A t \in Callers : (pc_q[t] = "wait" /\ ~InWrite) ~> (pc_q[t] = "returned")

\* C14: the worker thread has ended only if the exit signal has been set.
C14_WorkerLifetime == WorkerEnded => exit_signal

\* C18: once close has returned, no call of add puts a batch into the list
\* and no call of query starts to block.
C18_UseAfterClose ==
  [][ pc_c = "closed" =>
        /\ jobs' = jobs
        /\ \A t \in Callers : pc_q'[t] = "blocked" => pc_q[t] = "blocked" ]_vars

\* C20: the restored worker never dies of reading an attribute that is not
\* set, and once __setstate__ has returned the instance is Running: storage
\* reopened, queue empty, Busy Flag clear, exit signal present and unset,
\* worker alive.
C20_RestoreRunning ==
  /\ pc_w # "dead"
  /\ pc_c = "running" =>
       /\ db_open
       /\ jobs = <<>>
       /\ "_is_busy" \in attrs /\ ~is_busy
       /\ "_exit_signal" \in attrs /\ ~exit_signal
       /\ ~WorkerEnded

====
